---- MODULE Spec2Model ----
(***************************************************************************)
(* SimpleSessionStore (src/session_store.py): a file-per-session store.    *)
(* The storage directory is the only shared state; store instances hold    *)
(* nothing but the directory name.  Every caller is a process that runs    *)
(* one store operation at a time; each step of an operation is one access  *)
(* to the directory or to the clock, so that the steps of different        *)
(* callers interleave the way the system calls of the code can.            *)
(***************************************************************************)
EXTENDS Integers, Sequences, FiniteSets, TLC

VARIABLES
    dir,      \* whether storage_dir exists
    files,    \* the units of storage_dir: for each session_id, what its file holds
    now,      \* the clock that datetime.now() reads
    pc,       \* for each caller, where in its call it is
    loc,      \* for each caller, the arguments and local variables of its call
    ret,      \* for each caller, the call that has just returned and its value
    issued,   \* the identifiers uuid4 has generated
    deleted,  \* the identifiers for which delete_session has returned True
    env,      \* the callers and the arguments they use (never changes)
    cookie    \* for each caller, its session with the web application

vars == <<dir, files, now, pc, loc, ret, issued, deleted, env, cookie>>

(***************************************************************************)
(* Bounds of the model.                                                    *)
(***************************************************************************)
\* the clock stops at MaxTime ticks
MaxTime == 2
\* add_message is not called on a record that already holds MaxMsgs messages
MaxMsgs == 2
\* clock ticks per second: the sub-second part that isoformat() prints
TicksPerSec == 2
\* clock ticks per day (timedelta(days=1))
TicksPerDay == 2

Callers == {"p1", "p2"}
Ids == {"s1", "s2"}
NoneV == "None"
Users == {"u1", "u2"}
EmptyMap == "{}"
SP == " "
NL == "\n"
Whitespace == {SP, NL}
\* days_old arguments
Days == {0, 1}
\* characters that UTF-8 encodes in more than one byte
NonAscii == {"e_acute"}

(***************************************************************************)
(* Strings.                                                                *)
(***************************************************************************)
RECURSIVE lstrip(_)
lstrip(s) == IF s # <<>> /\ Head(s) \in Whitespace THEN lstrip(Tail(s)) ELSE s

RECURSIVE rstrip(_)
rstrip(s) ==
    IF s # <<>> /\ s[Len(s)] \in Whitespace
    THEN rstrip(SubSeq(s, 1, Len(s) - 1)) ELSE s

\* str.strip()
strip(s) == rstrip(lstrip(s))

lowerChar(c) == CASE c = "U" -> "u" [] c = "S" -> "s" [] c = "A" -> "a" [] OTHER -> c

\* str.lower()
lower(s) == [i \in 1..Len(s) |-> lowerChar(s[i])]

\* Python's < on two strings whose characters are compared by lessChar
RECURSIVE seqLess(_, _)
seqLess(a, b) ==
    IF b = <<>> THEN FALSE
    ELSE IF a = <<>> THEN TRUE
    ELSE IF Head(a) < Head(b) THEN TRUE
    ELSE IF Head(b) < Head(a) THEN FALSE
    ELSE seqLess(Tail(a), Tail(b))

(***************************************************************************)
(* Time.  A datetime is a number of ticks.  isoformat() prints the whole   *)
(* seconds as fixed-width fields and appends the sub-second field only     *)
(* when it is not zero; a printed timestamp is the sequence of its fields  *)
(* (fixed-width fields compare as their numbers).                          *)
(***************************************************************************)
isoformat(t) ==
    IF t % TicksPerSec = 0 THEN <<t \div TicksPerSec>>
    ELSE <<t \div TicksPerSec, t % TicksPerSec>>

fromisoformat(s) ==
    IF Len(s) = 1 THEN s[1] * TicksPerSec ELSE s[1] * TicksPerSec + s[2]

(***************************************************************************)
(* Records and persisted units.                                            *)
(***************************************************************************)
\* a record with nothing in it: the value of a variable that holds no record
NoRec ==
    [session_id |-> NoneV, user_id |-> NoneV, created_at |-> <<>>,
     last_updated |-> <<>>, message_count |-> 0, metadata |-> NoneV,
     messages |-> <<>>]

\* json.dump: the JSON document of a record.  None becomes null and a string
\* becomes a JSON string (so that the string "null" is not null); numbers,
\* lists and mappings with string keys become JSON numbers, arrays and
\* objects of the same content.
jsonNull == <<"null">>
jsonString(x) == <<"string", x>>
dumps(rec) ==
    [rec EXCEPT !.user_id = IF rec.user_id = NoneV THEN jsonNull
                            ELSE jsonString(rec.user_id)]

\* json.load: the record of a JSON document
loads(text) ==
    [text EXCEPT !.user_id = IF text.user_id = jsonNull THEN NoneV
                             ELSE text.user_id[2]]

NoText == dumps(NoRec)

\* no unit of that name in the directory
AbsentFile == [kind |-> "absent", text |-> NoText]
\* a unit whose text json.load cannot parse (empty, half-written, overwritten)
Unparseable == [kind |-> "unparseable", text |-> NoText]
\* a unit whose bytes are not UTF-8 text (cut inside a character)
Undecodable == [kind |-> "undecodable", text |-> NoText]
\* a unit that holds the text json.dump wrote for rec
JsonFile(rec) == [kind |-> "json", text |-> dumps(rec)]

\* json.dump(..., ensure_ascii=False) writes the characters of the message
\* contents as they are: the document of text has a multi-byte character
hasNonAscii(text) ==
    \E i \in 1..Len(text.messages) :
        \E j \in 1..Len(text.messages[i].content) :
            text.messages[i].content[j] \in NonAscii

\* what is left of a document that is cut somewhere: text that does not
\* parse, or bytes that do not decode when the cut is inside a character
torn(text) ==
    IF hasNonAscii(text) THEN {Unparseable, Undecodable} ELSE {Unparseable}

\* `metadata or {}`: None and the empty mapping both give the empty mapping
orEmpty(m) == IF m \in {NoneV, EmptyMap} THEN EmptyMap ELSE m

\* the directory's file names (os.listdir), each in every possible order
listdir(F) == {s \in Ids : F[s].kind # "absent"}

Perms(S) ==
    {f \in [1..Cardinality(S) -> S] :
        \A i, j \in 1..Cardinality(S) : i # j => f[i] # f[j]}

\* get_session with UnicodeDecodeError among the exceptions it catches
get_session_catchingAll(F, s) ==
    IF F[s].kind = "json"
    THEN [found |-> TRUE, data |-> loads(F[s].text), raised |-> NoneV]
    ELSE [found |-> FALSE, data |-> NoRec, raised |-> NoneV]

\* get_session: os.path.exists, open, json.load.  A unit removed between the
\* exists test and the open raises FileNotFoundError and a unit that does not
\* parse raises JSONDecodeError: both are caught and give None, so the whole
\* call gives what one read of the unit at the time of the open gives.  The
\* read of bytes that are not UTF-8 raises UnicodeDecodeError, which line 123
\* does not catch: raised is the exception that leaves the call.
get_session(F, s) ==
    IF F[s].kind = "json"
    THEN [found |-> TRUE, data |-> loads(F[s].text), raised |-> NoneV]
    ELSE IF F[s].kind = "undecodable"
    THEN [found |-> FALSE, data |-> NoRec, raised |-> "UnicodeDecodeError"]
    ELSE [found |-> FALSE, data |-> NoRec, raised |-> NoneV]

\* get_session_messages
get_session_messages(F, s) ==
    IF get_session(F, s).found THEN get_session(F, s).data.messages ELSE <<>>

\* the summary list_sessions builds from a record
summary(rec) ==
    [session_id |-> rec.session_id, user_id |-> rec.user_id,
     created_at |-> rec.created_at, last_updated |-> rec.last_updated,
     message_count |-> rec.message_count]

\* list.sort(key = last_updated, reverse = True): stable, so a summary goes
\* after every summary whose key is not less than its own
RECURSIVE insertDesc(_, _)
insertDesc(sorted, x) ==
    IF sorted = <<>> THEN <<x>>
    ELSE IF seqLess(Head(sorted).last_updated, x.last_updated)
         THEN <<x>> \o sorted
         ELSE <<Head(sorted)>> \o insertDesc(Tail(sorted), x)

\* the sort without reverse=True
RECURSIVE sortDesc_ascending(_)
sortDesc_ascending(seq) ==
    IF Len(seq) <= 1 THEN seq
    ELSE LET rest == sortDesc_ascending(Tail(seq))
             x == Head(seq)
             smaller == SelectSeq(rest, LAMBDA y : seqLess(y.last_updated, x.last_updated))
             others == SelectSeq(rest, LAMBDA y : ~seqLess(y.last_updated, x.last_updated))
         IN smaller \o <<x>> \o others

RECURSIVE sortDesc(_)
sortDesc(seq) ==
    IF seq = <<>> THEN <<>>
    ELSE insertDesc(sortDesc(SubSeq(seq, 1, Len(seq) - 1)), seq[Len(seq)])

\* the user filter of list_sessions
userMatches(filter, rec) == filter = NoneV \/ rec.user_id = filter

\* a generator that repeats itself
uuid4_repeated == env.pool[1]

\* uuid.uuid4(): an identifier that was never generated before
uuid4 == env.pool[Cardinality(issued) + 1]

(***************************************************************************)
(* A caller's local variables and the value its last call returned.        *)
(***************************************************************************)
NoLoc ==
    [op |-> NoneV, sid |-> NoneV, user |-> NoneV, meta |-> NoneV,
     role |-> <<>>, content |-> <<>>, data |-> NoRec, orig |-> NoText,
     todo |-> <<>>, acc |-> <<>>, cutoff |-> 0, removed |-> 0,
     orphan |-> FALSE, days |-> 0, names |-> <<>>]

\* a / b of two ints: a float, kept as the fraction; b = 0 raises
trueDiv(a, b) ==
    IF b = 0 THEN [raised |-> "ZeroDivisionError", num |-> 0, den |-> 1]
    ELSE [raised |-> NoneV, num |-> a, den |-> b]

\* the int 0
intZero == [raised |-> NoneV, num |-> 0, den |-> 1]

NoStats ==
    [total_sessions |-> 0, total_messages |-> 0,
     average_messages_per_session |-> intZero]

NoRet ==
    [op |-> NoneV, sid |-> NoneV, user |-> NoneV, meta |-> NoneV,
     content |-> <<>>, ok |-> FALSE, list |-> <<>>, n |-> 0,
     stats |-> NoStats, days |-> 0, raised |-> NoneV]

Returns(p, r) ==
    /\ pc' = [pc EXCEPT ![p] = "done"]
    /\ ret' = [ret EXCEPT ![p] = r]
    /\ loc' = [loc EXCEPT ![p] = NoLoc]

(***************************************************************************)
(* The callers and the arguments they pass.  env never changes: it says    *)
(* which callers run, which identifiers uuid4 gives (in that order), which *)
(* identifiers and arguments the calls are made with, and at how many      *)
(* messages a record is no longer appended to.  own gives the identifiers  *)
(* each caller makes its calls with (all of them, unless the callers keep  *)
(* to sessions of their own) and days the days_old arguments.              *)
(***************************************************************************)
AnyId == [p \in Callers |-> Ids]

BlankContents == {<<>>, <<SP, NL>>}

\* two callers and one session: every interleaving of two calls on it
Racing ==
    [procs |-> Callers, pool |-> <<"s1">>, ids |-> {"s1"},
     users |-> {"u1"}, filters |-> {NoneV}, metas |-> {NoneV},
     roles |-> {<<SP, "U">>},
     contents |-> {<<>>, <<SP, "h", "i", NL>>},
     maxmsgs |-> MaxMsgs, own |-> AnyId,
     days |-> {0}]

\* one caller and two sessions with different owners
Listing ==
    [procs |-> {"p1"}, pool |-> <<"s1", "s2">>, ids |-> Ids,
     users |-> {NoneV, "u1"}, filters |-> {NoneV, "u1", "u2"},
     metas |-> {NoneV},
     roles |-> {<<SP, "U">>},
     contents |-> {<<>>, <<SP, "h", "i", NL>>},
     maxmsgs |-> MaxMsgs - 1, own |-> AnyId,
     days |-> Days]

\* one caller and one session with every kind of message
Chatting ==
    [procs |-> {"p1"}, pool |-> <<"s1">>, ids |-> Ids,
     users |-> {NoneV, "u1"}, filters |-> {NoneV, "u1"},
     metas |-> {NoneV, EmptyMap, "{topic:x}"},
     roles |-> {<<SP, "U">>, <<"a", "i">>},
     contents |-> BlankContents \cup {<<SP, "h", "i", NL>>, <<"y", "o">>},
     maxmsgs |-> MaxMsgs, own |-> AnyId,
     days |-> Days]

\* one caller on a storage whose writes and removes can fail; a content
\* with a multi-byte character
Faulty ==
    [procs |-> {"p1"}, pool |-> <<"s1", "s2">>, ids |-> Ids,
     users |-> {"u1"}, filters |-> {NoneV}, metas |-> {NoneV},
     roles |-> {<<SP, "U">>},
     contents |-> {<<>>, <<"h", "e_acute">>},
     maxmsgs |-> MaxMsgs - 1, own |-> AnyId,
     days |-> Days]

\* two callers, each with a session of its own
Apart ==
    [procs |-> Callers, pool |-> <<"s1", "s2">>, ids |-> Ids,
     users |-> {"u1"}, filters |-> {NoneV}, metas |-> {NoneV},
     roles |-> {<<SP, "U">>},
     contents |-> {<<>>, <<SP, "h", "i", NL>>},
     maxmsgs |-> MaxMsgs,
     own |-> [p \in Callers |-> IF p = "p1" THEN {"s1"} ELSE {"s2"}],
     days |-> Days]

\* the same, the second caller's session being created first
ApartToo == [Apart EXCEPT !.pool = <<"s2", "s1">>]

\* the identifiers caller p makes its calls with
idsOf(p) == env.ids \cap env.own[p]

\* a session of the web application (a signed cookie) with no key set
NoCookie == [user_id |-> NoneV, session_id |-> NoneV]

\* the state before any store is constructed
InitCommon ==
    /\ dir = FALSE
    /\ files = [s \in Ids |-> AbsentFile]
    /\ now = 0
    /\ pc = [p \in Callers |-> IF p \in env.procs THEN "new" ELSE "off"]
    /\ loc = [p \in Callers |-> NoLoc]
    /\ ret = [p \in Callers |-> NoRet]
    /\ issued = {}
    /\ deleted = {}
    /\ cookie = [p \in Callers |-> NoCookie]

Init ==
    /\ env = Racing
    /\ InitCommon

InitSeq ==
    /\ env \in {Listing, Chatting}
    /\ InitCommon

InitApart ==
    /\ env \in {Apart, ApartToo}
    /\ InitCommon

InitFaulty ==
    /\ env = Faulty
    /\ InitCommon

\* by how much the clock may advance between two readings inside one call
Skews == IF now < MaxTime THEN {0, 1} ELSE {0}

(***************************************************************************)
(* __init__                                                                *)
(***************************************************************************)
\* a constructor that empties the directory it finds
ensure_storage_dir_emptied(F) == [s \in Ids |-> AbsentFile]

\* _ensure_storage_dir: os.makedirs when the directory does not exist; a
\* directory that exists is left as it is
ensure_storage_dir(F) == F

\* a caller constructs a store on the directory: its first, or a fresh one
NewStore(p) ==
    /\ pc[p] \in {"new", "idle"}
    /\ dir' = TRUE
    /\ files' = IF dir THEN ensure_storage_dir(files)
                      ELSE [s \in Ids |-> AbsentFile]
    /\ Returns(p, [NoRet EXCEPT !.op = "__init__"])
    /\ UNCHANGED <<now, issued, deleted, env, cookie>>

(***************************************************************************)
(* create_session                                                          *)
(***************************************************************************)
\* a record dated with the two readings the other way round
newSession_swapped(id, user, meta, t1, t2) ==
    [session_id |-> id, user_id |-> user, created_at |-> isoformat(t2),
     last_updated |-> isoformat(t1), message_count |-> 0,
     metadata |-> orEmpty(meta), messages |-> <<>>]

\* the record create_session builds; t1 and t2 are its two readings of the
\* clock, for created_at and then for last_updated
newSession(id, user, meta, t1, t2) ==
    [session_id |-> id, user_id |-> user, created_at |-> isoformat(t1),
     last_updated |-> isoformat(t2), message_count |-> 0,
     metadata |-> orEmpty(meta), messages |-> <<>>]

\* lines 50-59: the identifier and the record; the clock may advance between
\* its two readings
CreateCall(p) ==
    /\ pc[p] = "idle"
    /\ Cardinality(issued) < Len(env.pool)
    /\ uuid4 \in env.own[p]
    /\ \E user \in env.users, meta \in env.metas, d \in Skews :
        /\ loc' = [loc EXCEPT ![p] =
                [NoLoc EXCEPT !.op = "create_session", !.sid = uuid4,
                              !.user = user, !.meta = meta,
                              !.data = newSession(uuid4, user, meta, now, now + d)]]
        /\ now' = now + d
    /\ issued' = issued \cup {uuid4}
    /\ pc' = [pc EXCEPT ![p] = "save_open"]
    /\ UNCHANGED <<dir, files, ret, deleted, env, cookie>>

(***************************************************************************)
(* _save_session: open(session_file, 'w'), then json.dump and close.       *)
(***************************************************************************)
\* open(..., 'w') creates the unit or truncates it to nothing
SaveOpen(p) ==
    /\ pc[p] = "save_open"
    /\ files' = [files EXCEPT ![loc[p].sid] = Unparseable]
    /\ loc' = [loc EXCEPT ![p].orphan = FALSE]
    /\ pc' = [pc EXCEPT ![p] = "save_write"]
    /\ UNCHANGED <<dir, now, ret, issued, deleted, env, cookie>>

\* a write that appends the new message to what the unit holds by then
written_merged(cur, rec) ==
    IF cur.kind = "json" /\ rec.messages # <<>>
    THEN LET messages == Append(loads(cur.text).messages,
                                rec.messages[Len(rec.messages)])
         IN {JsonFile([rec EXCEPT !.messages = messages,
                                  !.message_count = Len(messages)])}
    ELSE {JsonFile(rec)}

\* what the unit holds after the text of rec is written from offset 0: a
\* unit that another writer filled since this writer truncated it keeps the
\* tail of the other text when that text is the longer one
written(cur, rec) ==
    IF cur.kind = "json" /\ cur # JsonFile(rec)
    THEN {JsonFile(rec)} \cup torn(cur.text)
    ELSE {JsonFile(rec)}

\* the value the operation that called _save_session returns: the new
\* identifier (create_session) or True (add_message)
savedRet(l) ==
    [NoRet EXCEPT !.op = l.op, !.sid = l.sid, !.user = l.user, !.meta = l.meta,
                  !.content = l.content, !.ok = TRUE]

\* json.dump and close: the text reaches the file the descriptor is open on,
\* which is no longer in the directory when the unit was removed meanwhile
SaveWrite(p) ==
    /\ pc[p] = "save_write"
    /\ IF loc[p].orphan
       THEN files' = files
       ELSE \E f \in written(files[loc[p].sid], loc[p].data) :
                files' = [files EXCEPT ![loc[p].sid] = f]
    /\ Returns(p, savedRet(loc[p]))
    /\ UNCHANGED <<dir, now, issued, deleted, env, cookie>>

\* open(..., 'w') fails (no permission, no space for a new unit): the
\* OSError is caught at line 233, nothing is written, and _save_session
\* returns to its caller as it does after a write
SaveOpenFails(p) ==
    /\ pc[p] = "save_open"
    /\ Returns(p, savedRet(loc[p]))
    /\ UNCHANGED <<dir, files, now, issued, deleted, env, cookie>>

\* json.dump or the close fails after part of the text was written (the
\* storage is full): the OSError is caught at line 233 and the unit keeps
\* the part that was written
SaveWriteFails(p) ==
    /\ pc[p] = "save_write"
    /\ ~loc[p].orphan
    /\ \E f \in torn(dumps(loc[p].data)) :
            files' = [files EXCEPT ![loc[p].sid] = f]
    /\ Returns(p, savedRet(loc[p]))
    /\ UNCHANGED <<dir, now, issued, deleted, env, cookie>>

(***************************************************************************)
(* add_message                                                             *)
(***************************************************************************)
\* the message add_message builds (lines 89-95)
newMessage(data, role, content, t1) ==
    [id |-> Len(data.messages) + 1,
     role |-> lower(strip(role)),
     content |-> strip(content),
     timestamp |-> isoformat(t1),
     metadata |-> orEmpty(NoneV)]

\* appendMessage with line 98 left out
appendMessage_staleCount(data, role, content, t1, t2) ==
    [data EXCEPT
        !.messages = Append(data.messages, newMessage(data, role, content, t1)),
        !.last_updated = isoformat(t2)]

\* appendMessage with the id counted from 0
appendMessage_idFromZero(data, role, content, t1, t2) ==
    LET messages == Append(data.messages,
                        [newMessage(data, role, content, t1)
                            EXCEPT !.id = Len(data.messages)])
    IN [data EXCEPT !.messages = messages,
                    !.message_count = Len(messages),
                    !.last_updated = isoformat(t2)]

\* appendMessage with line 99 left out
appendMessage_staleUpdated(data, role, content, t1, t2) ==
    LET messages == Append(data.messages, newMessage(data, role, content, t1))
    IN [data EXCEPT !.messages = messages,
                    !.message_count = Len(messages)]

\* appendMessage that dates the record anew
appendMessage_recreated(data, role, content, t1, t2) ==
    LET messages == Append(data.messages, newMessage(data, role, content, t1))
    IN [data EXCEPT !.messages = messages,
                    !.message_count = Len(messages),
                    !.created_at = isoformat(t2),
                    !.last_updated = isoformat(t2)]

\* lines 89-99: the message and the updated record; t1 and t2 are the two
\* readings of the clock, for the message and then for last_updated
appendMessage(data, role, content, t1, t2) ==
    LET messages == Append(data.messages, newMessage(data, role, content, t1))
    IN [data EXCEPT !.messages = messages,
                    !.message_count = Len(messages),
                    !.last_updated = isoformat(t2)]

\* addRejects without the content test of line 80
addRejects_noContentTest(content, got) == ~got.found

\* addRejects without the test of line 85
addRejects_noFoundTest(content, got) == strip(content) = <<>>

\* lines 80 and 85: what makes add_message return False
addRejects(content, got) == strip(content) = <<>> \/ ~got.found

\* lines 80-87: the content test, then the read of the record.  orig is the
\* record the unit held when the call was made.
AddCall(p) ==
    /\ pc[p] = "idle"
    /\ \E s \in idsOf(p), role \in env.roles, content \in env.contents :
        LET got == get_session(files, s)
            r == [NoRet EXCEPT !.op = "add_message", !.sid = s,
                               !.content = content, !.ok = FALSE]
        IN  IF strip(content) # <<>> /\ got.raised # NoneV
            THEN Returns(p, [r EXCEPT !.raised = got.raised])
            ELSE IF addRejects(content, got)
            THEN Returns(p, r)
            ELSE /\ Len(got.data.messages) < env.maxmsgs
                 /\ loc' = [loc EXCEPT ![p] =
                        [NoLoc EXCEPT !.op = "add_message", !.sid = s,
                                      !.role = role, !.content = content,
                                      !.data = got.data,
                                      !.orig = files[s].text]]
                 /\ pc' = [pc EXCEPT ![p] = "add_build"]
                 /\ ret' = ret
    /\ UNCHANGED <<dir, files, now, issued, deleted, env, cookie>>

AddBuild(p) ==
    /\ pc[p] = "add_build"
    /\ \E d \in Skews :
        /\ loc' = [loc EXCEPT ![p].data =
                appendMessage(loc[p].data, loc[p].role, loc[p].content,
                              now, now + d)]
        /\ now' = now + d
    /\ pc' = [pc EXCEPT ![p] = "save_open"]
    /\ UNCHANGED <<dir, files, ret, issued, deleted, env, cookie>>

(***************************************************************************)
(* get_session, get_session_messages                                       *)
(***************************************************************************)
GetSession(p) ==
    /\ pc[p] = "idle"
    /\ \E s \in idsOf(p) :
        Returns(p, [NoRet EXCEPT !.op = "get_session", !.sid = s,
                                 !.ok = get_session(files, s).found,
                                 !.raised = get_session(files, s).raised])
    /\ UNCHANGED <<dir, files, now, issued, deleted, env, cookie>>

GetSessionMessages(p) ==
    /\ pc[p] = "idle"
    /\ \E s \in idsOf(p) :
        Returns(p, [NoRet EXCEPT !.op = "get_session_messages", !.sid = s,
                                 !.list = get_session_messages(files, s),
                                 !.raised = get_session(files, s).raised])
    /\ UNCHANGED <<dir, files, now, issued, deleted, env, cookie>>

(***************************************************************************)
(* list_sessions                                                           *)
(***************************************************************************)
\* line 154: os.listdir, in whatever order the directory gives the names
ListCall(p) ==
    /\ pc[p] = "idle"
    /\ \E user \in env.filters, order \in Perms(listdir(files)) :
        loc' = [loc EXCEPT ![p] =
                [NoLoc EXCEPT !.op = "list_sessions", !.user = user,
                              !.todo = order]]
    /\ pc' = [pc EXCEPT ![p] = "list_scan"]
    /\ UNCHANGED <<dir, files, now, ret, issued, deleted, env, cookie>>

\* a scan that removes the units it cannot get a record from
ListScan_discarding(p) ==
    /\ pc[p] = "list_scan"
    /\ loc[p].todo # <<>>
    /\ LET got == get_session(files, Head(loc[p].todo))
       IN /\ loc' = [loc EXCEPT
                ![p].todo = Tail(loc[p].todo),
                ![p].acc = IF got.found /\ userMatches(loc[p].user, got.data)
                           THEN Append(loc[p].acc, summary(got.data))
                           ELSE loc[p].acc]
          /\ files' = IF got.found THEN files
                      ELSE [files EXCEPT ![Head(loc[p].todo)] = AbsentFile]
    /\ UNCHANGED <<dir, now, pc, ret, issued, deleted, env, cookie>>

\* lines 155-169: one name of the listing; an exception that leaves
\* get_session leaves list_sessions (and get_stats)
ListScan(p) ==
    /\ pc[p] = "list_scan"
    /\ loc[p].todo # <<>>
    /\ LET got == get_session(files, Head(loc[p].todo))
       IN IF got.raised # NoneV
          THEN Returns(p, [NoRet EXCEPT !.op = loc[p].op, !.user = loc[p].user,
                                        !.raised = got.raised])
          ELSE /\ loc' = [loc EXCEPT
                    ![p].todo = Tail(loc[p].todo),
                    ![p].acc = IF got.found /\ userMatches(loc[p].user, got.data)
                               THEN Append(loc[p].acc, summary(got.data))
                               ELSE loc[p].acc]
               /\ UNCHANGED <<pc, ret>>
    /\ UNCHANGED <<dir, files, now, issued, deleted, env, cookie>>

\* lines 171-173
ListSort(p) ==
    /\ pc[p] = "list_scan"
    /\ loc[p].op = "list_sessions"
    /\ loc[p].todo = <<>>
    /\ Returns(p, [NoRet EXCEPT !.op = "list_sessions", !.user = loc[p].user,
                                !.list = sortDesc(loc[p].acc)])
    /\ UNCHANGED <<dir, files, now, issued, deleted, env, cookie>>

(***************************************************************************)
(* get_stats                                                               *)
(***************************************************************************)
\* sum(s["message_count"] for s in sessions)
RECURSIVE sumCounts(_)
sumCounts(sessions) ==
    IF sessions = <<>> THEN 0
    ELSE Head(sessions).message_count + sumCounts(Tail(sessions))

\* the average without the test for no sessions
average_unguarded(total, n) == trueDiv(total, n)

\* line 245: total_messages / len(sessions) if sessions else 0
average(total, n) == IF n # 0 THEN trueDiv(total, n) ELSE intZero

\* lines 239-246: the statistics of the list that list_sessions() returned
statsOf(sessions) ==
    [total_sessions |-> Len(sessions),
     total_messages |-> sumCounts(sessions),
     average_messages_per_session |-> average(sumCounts(sessions), Len(sessions))]

\* line 238: get_stats calls list_sessions() with no filter; the scan of the
\* names is ListScan
StatsCall(p) ==
    /\ pc[p] = "idle"
    /\ \E order \in Perms(listdir(files)) :
        loc' = [loc EXCEPT ![p] =
                [NoLoc EXCEPT !.op = "get_stats", !.user = NoneV,
                              !.todo = order]]
    /\ pc' = [pc EXCEPT ![p] = "list_scan"]
    /\ UNCHANGED <<dir, files, now, ret, issued, deleted, env, cookie>>

\* lines 171-173, then 239-246
StatsDone(p) ==
    /\ pc[p] = "list_scan"
    /\ loc[p].op = "get_stats"
    /\ loc[p].todo = <<>>
    /\ Returns(p, [NoRet EXCEPT !.op = "get_stats",
                                !.stats = statsOf(sortDesc(loc[p].acc))])
    /\ UNCHANGED <<dir, files, now, issued, deleted, env, cookie>>

(***************************************************************************)
(* delete_session                                                          *)
(***************************************************************************)
\* os.path.exists
exists(F, s) == F[s].kind # "absent"

\* a remove that takes every unit of the directory with it
removed_everything(F, s) == [x \in Ids |-> AbsentFile]

\* a remove that leaves the unit where it is
removed_kept(F, s) == F

\* os.remove: the name leaves the directory
removed(F, s) == [F EXCEPT ![s] = AbsentFile]

\* a remove after which a pending write still reaches the directory
orphaned_none(L, s) == L

\* a writer that holds the removed unit open now writes to a file that is in
\* no directory
orphaned(L, s) ==
    [q \in Callers |->
        IF pc[q] = "save_write" /\ L[q].sid = s
        THEN [L[q] EXCEPT !.orphan = TRUE] ELSE L[q]]

\* lines 185-196.  os.remove of a unit that another caller removed after the
\* exists test raises FileNotFoundError, an OSError, and the call returns
\* False as it does when the exists test fails: the call is one step, at the
\* time of the os.remove (or of the failed test).
DeleteSession(p) ==
    /\ pc[p] = "idle"
    /\ \E s \in idsOf(p) :
        LET r == [NoRet EXCEPT !.op = "delete_session", !.sid = s]
        IN  IF exists(files, s)
            THEN /\ files' = removed(files, s)
                 /\ deleted' = deleted \cup {s}
                 /\ pc' = [pc EXCEPT ![p] = "done"]
                 /\ ret' = [ret EXCEPT ![p] = [r EXCEPT !.ok = TRUE]]
                 /\ loc' = [orphaned(loc, s) EXCEPT ![p] = NoLoc]
            ELSE /\ Returns(p, [r EXCEPT !.ok = FALSE])
                 /\ UNCHANGED <<files, deleted>>
    /\ UNCHANGED <<dir, now, issued, env, cookie>>

\* lines 186-193: os.remove fails on a unit that exists (no permission):
\* the OSError is caught and the call returns False
DeleteFails(p) ==
    /\ pc[p] = "idle"
    /\ \E s \in idsOf(p) :
        /\ exists(files, s)
        /\ Returns(p, [NoRet EXCEPT !.op = "delete_session", !.sid = s,
                                    !.ok = FALSE])
    /\ UNCHANGED <<dir, files, now, issued, deleted, env, cookie>>

(***************************************************************************)
(* cleanup_old_sessions                                                    *)
(***************************************************************************)
\* a cutoff one day further back
cutoffDate_dayEarlier(t, days) == t - (days + 1) * TicksPerDay

\* line 210: datetime.now() - timedelta(days=days_old)
cutoffDate(t, days) == t - days * TicksPerDay

\* the age taken from last_updated
isOld_byLastUpdated(rec, cutoff) == fromisoformat(rec.last_updated) < cutoff

\* line 220
isOld(rec, cutoff) == fromisoformat(rec.created_at) < cutoff

CleanupCall(p) ==
    /\ pc[p] = "idle"
    /\ \E days \in env.days :
        loc' = [loc EXCEPT ![p] =
                [NoLoc EXCEPT !.op = "cleanup_old_sessions", !.days = days,
                              !.cutoff = cutoffDate(now, days)]]
    /\ pc' = [pc EXCEPT ![p] = "cleanup_dir"]
    /\ UNCHANGED <<dir, files, now, ret, issued, deleted, env, cookie>>

\* line 213: os.listdir; names is the list it returns and todo what the loop
\* has yet to visit
CleanupDir(p) ==
    /\ pc[p] = "cleanup_dir"
    /\ \E order \in Perms(listdir(files)) :
        loc' = [loc EXCEPT ![p].todo = order, ![p].names = order]
    /\ pc' = [pc EXCEPT ![p] = "cleanup_scan"]
    /\ UNCHANGED <<dir, files, now, ret, issued, deleted, env, cookie>>

\* lines 214-220: one name of the listing
CleanupRead(p) ==
    /\ pc[p] = "cleanup_scan"
    /\ loc[p].todo # <<>>
    /\ LET got == get_session(files, Head(loc[p].todo))
       IN IF got.raised # NoneV
          THEN Returns(p, [NoRet EXCEPT !.op = "cleanup_old_sessions",
                                        !.days = loc[p].days,
                                        !.raised = got.raised])
          ELSE IF got.found /\ isOld(got.data, loc[p].cutoff)
          THEN /\ pc' = [pc EXCEPT ![p] = "cleanup_delete"]
               /\ UNCHANGED <<loc, ret>>
          ELSE /\ loc' = [loc EXCEPT ![p].todo = Tail(loc[p].todo)]
               /\ UNCHANGED <<pc, ret>>
    /\ UNCHANGED <<dir, files, now, issued, deleted, env, cookie>>

\* lines 221-222: delete_session on that name
CleanupDelete(p) ==
    /\ pc[p] = "cleanup_delete"
    /\ LET s == Head(loc[p].todo)
       IN IF exists(files, s)
          THEN /\ files' = removed(files, s)
               /\ deleted' = deleted \cup {s}
               /\ loc' = [orphaned(loc, s) EXCEPT
                            ![p].todo = Tail(loc[p].todo),
                            ![p].removed = loc[p].removed + 1]
          ELSE /\ loc' = [loc EXCEPT ![p].todo = Tail(loc[p].todo)]
               /\ UNCHANGED <<files, deleted>>
    /\ pc' = [pc EXCEPT ![p] = "cleanup_scan"]
    /\ UNCHANGED <<dir, now, ret, issued, env, cookie>>

\* lines 221-222 when the os.remove of delete_session fails: the unit stays
\* and is not counted
CleanupDeleteFails(p) ==
    /\ pc[p] = "cleanup_delete"
    /\ exists(files, Head(loc[p].todo))
    /\ loc' = [loc EXCEPT ![p].todo = Tail(loc[p].todo)]
    /\ pc' = [pc EXCEPT ![p] = "cleanup_scan"]
    /\ UNCHANGED <<dir, files, now, ret, issued, deleted, env, cookie>>

\* lines 224-225
CleanupDone(p) ==
    /\ pc[p] = "cleanup_scan"
    /\ loc[p].todo = <<>>
    /\ Returns(p, [NoRet EXCEPT !.op = "cleanup_old_sessions",
                                !.days = loc[p].days,
                                !.n = loc[p].removed])
    /\ UNCHANGED <<dir, files, now, issued, deleted, env, cookie>>

(***************************************************************************)
(* The callers and the clock.                                              *)
(***************************************************************************)
\* the caller takes the returned value and is free to call again
Return(p) ==
    /\ pc[p] = "done"
    /\ pc' = [pc EXCEPT ![p] = "idle"]
    /\ ret' = [ret EXCEPT ![p] = NoRet]
    /\ UNCHANGED <<dir, files, now, loc, issued, deleted, env, cookie>>

\* time passes
Tick ==
    /\ now < MaxTime
    /\ now' = now + 1
    /\ UNCHANGED <<dir, files, pc, loc, ret, issued, deleted, env, cookie>>

Next ==
    \/ Tick
    \/ \E p \in Callers :
        \/ NewStore(p)
        \/ CreateCall(p)
        \/ SaveOpen(p)
        \/ SaveWrite(p)
        \/ AddCall(p)
        \/ AddBuild(p)
        \/ GetSession(p)
        \/ GetSessionMessages(p)
        \/ ListCall(p)
        \/ ListScan(p)
        \/ ListSort(p)
        \/ StatsCall(p)
        \/ StatsDone(p)
        \/ DeleteSession(p)
        \/ CleanupCall(p)
        \/ CleanupDir(p)
        \/ CleanupRead(p)
        \/ CleanupDelete(p)
        \/ CleanupDone(p)
        \/ Return(p)

\* any number of callers, interleaved
Spec == Init /\ [][Next]_vars

\* one caller
SpecSeq == InitSeq /\ [][Next]_vars

\* create_session, add_message, get_session, get_session_messages and
\* delete_session calls
NextApart ==
    \/ Tick
    \/ \E p \in Callers :
        \/ NewStore(p)
        \/ CreateCall(p)
        \/ SaveOpen(p)
        \/ SaveWrite(p)
        \/ AddCall(p)
        \/ AddBuild(p)
        \/ GetSession(p)
        \/ GetSessionMessages(p)
        \/ DeleteSession(p)
        \/ Return(p)

\* two callers, each on a session of its own
SpecApart == InitApart /\ [][NextApart]_vars

\* the steps of the callers and the failures of the storage
NextFaulty ==
    \/ Next
    \/ \E p \in Callers :
        \/ SaveOpenFails(p)
        \/ SaveWriteFails(p)
        \/ DeleteFails(p)
        \/ CleanupDeleteFails(p)

\* one caller on a storage that can fail
SpecFaulty == InitFaulty /\ [][NextFaulty]_vars

(***************************************************************************)
(* The web application (src/backend/app.py).  It holds one store and keeps, *)
(* for each client, a signed session cookie with the keys user_id and      *)
(* session_id.  A request is served in one step: the handler's calls of    *)
(* the store, on the directory as it is, and the response.  ret holds the  *)
(* response: the route, the session_id of the path, the status code.       *)
(***************************************************************************)
\* two clients and two identities
Web ==
    [procs |-> Callers, pool |-> <<"s1", "s2">>, ids |-> Ids,
     users |-> Users, filters |-> Users, metas |-> {NoneV},
     roles |-> {<<"u", "s", "e", "r">>},
     contents |-> {<<>>, <<SP, "h", "i", NL>>},
     maxmsgs |-> MaxMsgs - 1, own |-> AnyId,
     days |-> Days]

\* line 13: the application has constructed its store; no client has made a
\* request
InitWeb ==
    /\ env = Web
    /\ dir = TRUE
    /\ files = [s \in Ids |-> AbsentFile]
    /\ now = 0
    /\ pc = [p \in Callers |-> "idle"]
    /\ loc = [p \in Callers |-> NoLoc]
    /\ ret = [p \in Callers |-> NoRet]
    /\ issued = {}
    /\ deleted = {}
    /\ cookie = [p \in Callers |-> NoCookie]

\* the directory after store.create_session(user_id=user) at time t
created(F, id, user, t) ==
    [F EXCEPT ![id] = JsonFile(newSession(id, user, NoneV, t, t))]

\* the directory after store.add_message(sid, role, content) at time t
appended(F, sid, role, content, t) ==
    IF addRejects(content, get_session(F, sid)) THEN F
    ELSE [F EXCEPT ![sid] =
            JsonFile(appendMessage(get_session(F, sid).data, role, content, t, t))]

\* the summaries list_sessions(user) collects when it visits the names in
\* the order names
RECURSIVE scanned(_, _, _)
scanned(F, user, names) ==
    IF names = <<>> THEN <<>>
    ELSE LET got == get_session(F, Head(names))
             rest == scanned(F, user, Tail(names))
         IN IF got.found /\ userMatches(user, got.data)
            THEN <<summary(got.data)>> \o rest ELSE rest

\* an ownership test that only asks whether the session exists
authorized_anyone(sessions, sid) == sid # NoneV

\* lines 84 and 96: any(s['session_id'] == session_id for s in sessions)
authorized(sessions, sid) ==
    \E i \in 1..Len(sessions) : sessions[i].session_id = sid

\* 'user_id' not in session
signedOut(c) == cookie[c].user_id = NoneV

\* the response of a route
response(route, sid, status) ==
    [NoRet EXCEPT !.op = route, !.sid = sid, !.n = status]

\* lines 40-49: POST /login
Login(c) ==
    /\ pc[c] = "idle"
    /\ Cardinality(issued) < Len(env.pool)
    /\ \E user \in env.users :
        /\ files' = created(files, uuid4, user, now)
        /\ cookie' = [cookie EXCEPT ![c] = [user_id |-> user, session_id |-> uuid4]]
        /\ Returns(c, [response("login", NoneV, 302) EXCEPT !.user = user])
    /\ issued' = issued \cup {uuid4}
    /\ UNCHANGED <<dir, now, deleted, env>>

\* lines 51-55: /logout
Logout(c) ==
    /\ pc[c] = "idle"
    /\ cookie' = [cookie EXCEPT ![c] = NoCookie]
    /\ Returns(c, response("logout", NoneV, 302))
    /\ UNCHANGED <<dir, files, now, issued, deleted, env>>

\* lines 20-26: POST /new_chat
NewChat(c) ==
    /\ pc[c] = "idle"
    /\ IF signedOut(c)
       THEN /\ Returns(c, response("new_chat", NoneV, 401))
            /\ UNCHANGED <<files, cookie, issued>>
       ELSE /\ Cardinality(issued) < Len(env.pool)
            /\ files' = created(files, uuid4, cookie[c].user_id, now)
            /\ cookie' = [cookie EXCEPT ![c].session_id = uuid4]
            /\ issued' = issued \cup {uuid4}
            /\ Returns(c, response("new_chat", NoneV, 200))
    /\ UNCHANGED <<dir, now, deleted, env>>

\* lines 27-38: POST / with a message
ChatPost(c) ==
    /\ pc[c] = "idle"
    /\ \E message \in env.contents :
        IF signedOut(c) \/ cookie[c].session_id = NoneV
        THEN /\ Returns(c, response("chat", NoneV, 302))
             /\ files' = files
        ELSE LET sid == cookie[c].session_id
             IN /\ Len(get_session_messages(files, sid)) < env.maxmsgs
                /\ files' = appended(files, sid, <<"u", "s", "e", "r">>, message, now)
                /\ Returns(c, [response("chat", sid, 200) EXCEPT
                                    !.content = message,
                                    !.list = get_session_messages(files', sid)])
    /\ UNCHANGED <<dir, now, issued, deleted, env, cookie>>

\* lines 59-75: GET /sessions
Sessions(c) ==
    /\ pc[c] = "idle"
    /\ IF signedOut(c)
       THEN Returns(c, response("sessions", NoneV, 401))
       ELSE \E names \in Perms(listdir(files)) :
                Returns(c, [response("sessions", NoneV, 200) EXCEPT
                    !.user = cookie[c].user_id,
                    !.list = sortDesc(scanned(files, cookie[c].user_id, names))])
    /\ UNCHANGED <<dir, files, now, issued, deleted, env, cookie>>

\* lines 78-87: POST /load_session/<session_id>
LoadSession(c) ==
    /\ pc[c] = "idle"
    /\ \E sid \in env.ids, names \in Perms(listdir(files)) :
        LET sessions == sortDesc(scanned(files, cookie[c].user_id, names))
        IN  IF signedOut(c)
            THEN /\ Returns(c, response("load_session", sid, 401))
                 /\ cookie' = cookie
            ELSE IF ~authorized(sessions, sid)
            THEN /\ Returns(c, response("load_session", sid, 404))
                 /\ cookie' = cookie
            ELSE /\ Returns(c, response("load_session", sid, 200))
                 /\ cookie' = [cookie EXCEPT ![c].session_id = sid]
    /\ UNCHANGED <<dir, files, now, issued, deleted, env>>

\* lines 90-99: POST /delete_session/<session_id>
DeleteRoute(c) ==
    /\ pc[c] = "idle"
    /\ \E sid \in env.ids, names \in Perms(listdir(files)) :
        LET sessions == sortDesc(scanned(files, cookie[c].user_id, names))
        IN  IF signedOut(c)
            THEN /\ Returns(c, response("delete_session", sid, 401))
                 /\ UNCHANGED <<files, deleted>>
            ELSE IF ~authorized(sessions, sid)
            THEN /\ Returns(c, response("delete_session", sid, 404))
                 /\ UNCHANGED <<files, deleted>>
            ELSE /\ Returns(c, [response("delete_session", sid, 200) EXCEPT
                                    !.ok = exists(files, sid)])
                 /\ files' = IF exists(files, sid) THEN removed(files, sid)
                                                   ELSE files
                 /\ deleted' = IF exists(files, sid) THEN deleted \cup {sid}
                                                     ELSE deleted
    /\ UNCHANGED <<dir, now, issued, env, cookie>>

\* the requests of the clients; the clock, which no handler decides by,
\* stays where it is
NextWeb ==
    \E c \in Callers :
        \/ Login(c)
        \/ Logout(c)
        \/ NewChat(c)
        \/ ChatPost(c)
        \/ Sessions(c)
        \/ LoadSession(c)
        \/ DeleteRoute(c)
        \/ Return(c)

\* the clients of the web application, one request at a time
SpecWeb == InitWeb /\ [][NextWeb]_vars

(***************************************************************************)
(* Properties.  persisted(s) says that unit s holds a record; the record   *)
(* is read off the JSON document in the unit.                              *)
(***************************************************************************)
persisted(s) == files[s].kind = "json"

\* caller p is inside an add_message call on s that has read the record
addInFlight(p, s) ==
    /\ pc[p] \in {"add_build", "save_open", "save_write"}
    /\ loc[p].op = "add_message"
    /\ loc[p].sid = s

\* C1: in every reachable state, under every interleaving of the callers'
\* operations, every persisted record has message_count equal to the length
\* of its messages list.
C1_CountIsLength ==
    \A s \in Ids :
        persisted(s) =>
            files[s].text.message_count = Len(files[s].text.messages)

\* a record with messages that was written back after a delete of its unit
C1_Witness ==
    \E s \in deleted :
        persisted(s) /\ files[s].text.message_count = Len(files[s].text.messages)
                     /\ Len(files[s].text.messages) >= 1

\* C2: in every reachable state, the message at position i of every persisted
\* record has id i: the ids are exactly 1..n.
C2_IdsArePositions ==
    \A s \in Ids :
        persisted(s) =>
            \A i \in 1..Len(files[s].text.messages) :
                files[s].text.messages[i].id = i

\* a record with MaxMsgs messages while the other caller is inside an
\* add_message on the same session
C2_Witness ==
    \E s \in Ids, p \in Callers :
        /\ persisted(s)
        /\ Len(files[s].text.messages) = MaxMsgs
        /\ files[s].text.messages[MaxMsgs].id = MaxMsgs
        /\ addInFlight(p, s)

\* C3: with a single caller, a successful add_message appends exactly one
\* message at the end of the record the unit held when the call was made,
\* with id = previous message_count + 1, keeps the earlier messages as they
\* were, raises message_count by exactly 1, sets last_updated to the time of
\* the append (not before the new message's timestamp, not after the
\* return), and touches no other unit.
C3_AppendsOne ==
    [][\A p \in Callers :
        /\ (pc[p] = "idle" /\ pc'[p] = "add_build") =>
                /\ persisted(loc'[p].sid)
                /\ loc'[p].orig = files[loc'[p].sid].text
                /\ files' = files
        /\ \A s \in Ids :
                addInFlight(p, s) =>
                    \A o \in Ids \ {s} : files'[o] = files[o]
        /\ (pc[p] = "save_write" /\ loc[p].op = "add_message" /\ pc'[p] = "done") =>
                LET old == loc[p].orig
                    new == files'[loc[p].sid].text
                    n == Len(old.messages)
                IN  /\ ret'[p].ok
                    /\ files'[loc[p].sid].kind = "json"
                    /\ Len(new.messages) = n + 1
                    /\ SubSeq(new.messages, 1, n) = old.messages
                    /\ new.messages[n + 1].id = old.message_count + 1
                    /\ new.message_count = old.message_count + 1
                    /\ \E t \in 0..now' :
                        /\ new.last_updated = isoformat(t)
                        /\ fromisoformat(new.messages[n + 1].timestamp) <= t
                    /\ [new EXCEPT !.messages = old.messages,
                                   !.message_count = old.message_count,
                                   !.last_updated = old.last_updated] = old
      ]_vars

\* add_message has returned True for a second message, sent with whitespace
\* around its content, some time after the first one
C3_Witness ==
    \E p \in Callers :
        /\ pc[p] = "done" /\ ret[p].op = "add_message" /\ ret[p].ok
        /\ ret[p].content = <<SP, "h", "i", NL>>
        /\ persisted(ret[p].sid)
        /\ LET t == files[ret[p].sid].text
           IN /\ Len(t.messages) = 2
              /\ t.messages[2].content = <<"h", "i">>
              /\ t.messages[1].timestamp # t.messages[2].timestamp

\* a string that is empty or holds only whitespace
blank(c) == \A i \in 1..Len(c) : c[i] \in Whitespace

\* caller p makes an add_message call in this step
addCalled(p) ==
    /\ pc[p] = "idle"
    /\ \/ pc'[p] = "done" /\ ret'[p].op = "add_message"
       \/ pc'[p] # "idle" /\ loc'[p].op = "add_message"

\* the arguments of the add_message call made in this step
addCalledSid(p) == IF pc'[p] = "done" THEN ret'[p].sid ELSE loc'[p].sid
addCalledContent(p) == IF pc'[p] = "done" THEN ret'[p].content ELSE loc'[p].content

\* C4: add_message with content that is empty or only whitespace returns
\* failure at once and leaves the whole storage namespace as it was.
C4_BlankRejected ==
    [][\A p \in Callers :
        (addCalled(p) /\ blank(addCalledContent(p))) =>
            /\ pc'[p] = "done"
            /\ ~ret'[p].ok
            /\ files' = files
            /\ dir' = dir
      ]_vars

\* add_message with whitespace-only content has returned False on a session
\* that holds a message
C4_Witness ==
    \E p \in Callers :
        /\ pc[p] = "done" /\ ret[p].op = "add_message" /\ ~ret[p].ok
        /\ ret[p].content = <<SP, NL>>
        /\ persisted(ret[p].sid)
        /\ files[ret[p].sid].text.message_count = 1

\* C5: add_message on an identifier that has no persisted record returns
\* failure and creates no record: get_session on the identifier is still
\* not-found and the set of persisted sessions is unchanged.
C5_MissingRejected ==
    [][\A p \in Callers :
        (addCalled(p) /\ ~persisted(addCalledSid(p))) =>
            /\ pc'[p] = "done"
            /\ ~ret'[p].ok
            /\ ~get_session(files', addCalledSid(p)).found
            /\ listdir(files') = listdir(files)
            /\ files' = files
      ]_vars

\* add_message with a proper content has returned False on an identifier
\* that was never created, while another session is persisted
C5_Witness ==
    \E p \in Callers :
        /\ pc[p] = "done" /\ ret[p].op = "add_message" /\ ~ret[p].ok
        /\ ~blank(ret[p].content)
        /\ ret[p].sid \notin issued
        /\ ~exists(files, ret[p].sid)
        /\ \E o \in Ids : persisted(o)

\* C6: with a single caller, create_session generates an identifier that was
\* never generated (so never returned) before and is the name of no unit,
\* returns that identifier, and get_session on it right after the return
\* gives a record with the given user_id, the given metadata (the empty
\* mapping when none is given), message_count 0 and no messages.
C6_CreateFresh ==
    [][\A p \in Callers :
        /\ (pc[p] = "idle" /\ loc'[p].op = "create_session") =>
                /\ loc'[p].sid \notin issued
                /\ ~exists(files, loc'[p].sid)
        /\ (pc[p] # "done" /\ pc'[p] = "done" /\ ret'[p].op = "create_session") =>
                LET got == get_session(files', ret'[p].sid)
                IN  /\ ret'[p].sid = loc[p].sid
                    /\ got.found
                    /\ got.data.session_id = ret'[p].sid
                    /\ got.data.user_id = ret'[p].user
                    /\ got.data.metadata =
                            IF ret'[p].meta = NoneV THEN EmptyMap ELSE ret'[p].meta
                    /\ got.data.message_count = 0
                    /\ got.data.messages = <<>>
      ]_vars

\* create_session has returned the identifier of a session made with a user
\* and a metadata mapping
C6_Witness ==
    \E p \in Callers :
        /\ pc[p] = "done" /\ ret[p].op = "create_session"
        /\ ret[p].user = "u1" /\ ret[p].meta = "{topic:x}"
        /\ persisted(ret[p].sid)
        /\ files[ret[p].sid].text.metadata = "{topic:x}"

\* a second create_session has returned while the first session is persisted
C6_WitnessSecond ==
    \E p \in Callers :
        /\ pc[p] = "done" /\ ret[p].op = "create_session"
        /\ \E o \in Ids \ {ret[p].sid} : persisted(o)

\* C7: with a single caller, once delete_session(id) has returned success the
\* unit is gone, get_session(id) gives not-found and no list_sessions result
\* contains id; a delete_session on such an id returns failure and changes
\* nothing; delete_session returns success exactly when the unit exists,
\* which it does not after a first success.
C7_DeleteOnce ==
    [][\A p \in Callers :
        /\ \A s \in deleted' :
                /\ ~exists(files', s)
                /\ ~get_session(files', s).found
                /\ (pc'[p] = "done" /\ ret'[p].op = "list_sessions") =>
                        \A i \in 1..Len(ret'[p].list) :
                            ret'[p].list[i].session_id # s
        /\ (pc[p] = "idle" /\ pc'[p] = "done" /\ ret'[p].op = "delete_session") =>
                LET s == ret'[p].sid
                IN  /\ s \in deleted => ~ret'[p].ok /\ files' = files
                    /\ ret'[p].ok <=> exists(files, s)
                    /\ ret'[p].ok => s \notin deleted /\ ~exists(files', s)
      ]_vars

\* a second delete_session on a deleted session has returned False
C7_Witness ==
    \E p \in Callers :
        /\ pc[p] = "done" /\ ret[p].op = "delete_session" /\ ~ret[p].ok
        /\ ret[p].sid \in deleted

\* caller p reads unit s in this step, in a get_session, get_session_messages
\* or list_sessions call, and the call gets the record
readsRecord(p, s) ==
    \/ /\ pc[p] = "idle" /\ pc'[p] = "done"
       /\ ret'[p].sid = s
       /\ \/ ret'[p].op = "get_session" /\ ret'[p].ok
          \/ ret'[p].op = "get_session_messages" /\ ret'[p].list # <<>>
    \/ /\ pc[p] = "list_scan" /\ loc[p].todo # <<>>
       /\ Head(loc[p].todo) = s
       /\ Len(loc'[p].acc) > Len(loc[p].acc)

\* C8 as stated: once delete_session(id) has returned success, no later
\* get_session, get_session_messages or list_sessions gets the record of id,
\* under every interleaving, an add_message that had read the record before
\* the delete included.
C8_NoTraceEver ==
    [][\A p \in Callers : \A s \in deleted : ~readsRecord(p, s)]_vars

\* delete_session has succeeded on s, the unit is absent and no add_message
\* on s that has read the record is still running
goneForGood(s) ==
    /\ s \in deleted
    /\ ~exists(files, s)
    /\ \A q \in Callers : ~addInFlight(q, s)

\* C8, amended: once delete_session(id) has returned success and no
\* add_message on id that read the record before the delete is still
\* running, the unit stays absent and no later get_session,
\* get_session_messages or list_sessions gets the record of id, under every
\* interleaving of the callers' operations.
C8_NoTraceUnlessStaleAdd ==
    [][\A s \in Ids :
        goneForGood(s) =>
            /\ goneForGood(s)'
            /\ \A p \in Callers : ~readsRecord(p, s)
      ]_vars

\* after a successful delete with no add_message running, the other caller's
\* get_session on the identifier has returned not-found
C8_Witness ==
    \E s \in Ids, p \in Callers :
        /\ goneForGood(s)
        /\ pc[p] = "done" /\ ret[p].op = "get_session" /\ ret[p].sid = s
        /\ ~ret[p].ok
        /\ \E q \in Callers \ {p} : pc[q] = "done" /\ ret[q].op = "delete_session"
                                    /\ ret[q].sid = s /\ ret[q].ok

\* C9: with a single caller, list_sessions(u) returns one summary for exactly
\* each persisted session whose stored user_id is u (for every persisted
\* session when u is None), each with the message_count and last_updated of
\* the stored record, ordered by last_updated descending (as strings and as
\* times).
C9_ListIsFilteredAndSorted ==
    \A p \in Callers :
        (pc[p] = "done" /\ ret[p].op = "list_sessions") =>
            LET L == ret[p].list
                u == ret[p].user
                wanted == {s \in Ids :
                            /\ persisted(s)
                            /\ u = NoneV \/ files[s].text.user_id = jsonString(u)}
            IN  /\ Len(L) = Cardinality(wanted)
                /\ {L[i].session_id : i \in 1..Len(L)} = wanted
                /\ \A i \in 1..Len(L) :
                    LET t == files[L[i].session_id].text
                    IN  /\ L[i].message_count = t.message_count
                        /\ L[i].last_updated = t.last_updated
                /\ \A i, j \in 1..Len(L) :
                    i < j =>
                        /\ ~seqLess(L[i].last_updated, L[j].last_updated)
                        /\ fromisoformat(L[i].last_updated)
                                >= fromisoformat(L[j].last_updated)

\* list_sessions(None) has returned two sessions, the one updated last first
C9_Witness ==
    \E p \in Callers :
        /\ pc[p] = "done" /\ ret[p].op = "list_sessions"
        /\ ret[p].user = NoneV
        /\ Len(ret[p].list) = 2
        /\ ret[p].list[1].last_updated # ret[p].list[2].last_updated
        /\ ret[p].list[1].session_id = "s2"
        /\ ret[p].list[1].message_count = 1

\* list_sessions with a user filter has left out a session of another owner
C9_WitnessFiltered ==
    \E p \in Callers :
        /\ pc[p] = "done" /\ ret[p].op = "list_sessions"
        /\ ret[p].user = "u1"
        /\ Len(ret[p].list) = 1
        /\ Cardinality({s \in Ids : persisted(s)}) = 2

\* C10: a store constructed on a directory that holds sessions changes
\* nothing in it: get_session through the fresh instance gives, for every
\* identifier, the record that was there before the construction, with the
\* same messages in the same order.
C10_FreshInstanceSeesSame ==
    [][\A p \in Callers :
        (pc[p] \in {"new", "idle"} /\ pc'[p] = "done" /\ ret'[p].op = "__init__") =>
            \A s \in Ids :
                /\ get_session(files', s) = get_session(files, s)
                /\ get_session_messages(files', s) = get_session_messages(files, s)
                /\ files'[s] = files[s]
      ]_vars

\* a fresh store has been constructed on a directory that holds a session
\* with MaxMsgs messages of different roles and contents
C10_Witness ==
    \E p \in Callers, s \in Ids :
        /\ pc[p] = "done" /\ ret[p].op = "__init__"
        /\ persisted(s)
        /\ Len(get_session(files, s).data.messages) = MaxMsgs
        /\ get_session(files, s).data.messages[1].role = <<"u">>
        /\ get_session(files, s).data.messages[MaxMsgs].role = <<"a", "i">>
        /\ get_session(files, s).data.messages[1].content = <<"h", "i">>
        /\ get_session(files, s).data.messages[MaxMsgs].content = <<"y", "o">>

\* the number of messages in the persisted records of the sessions in S
RECURSIVE persistedMessages(_)
persistedMessages(S) ==
    IF S = {} THEN 0
    ELSE LET s == CHOOSE x \in S : TRUE
         IN Len(files[s].text.messages) + persistedMessages(S \ {s})

\* C11: with a single caller, get_stats returns total_sessions equal to the
\* number of persisted sessions and total_messages equal to the sum of the
\* lengths of their message lists; the average is their quotient, and on an
\* empty namespace all three are 0 and no division by zero is raised.
C11_StatsAreTotals ==
    \A p \in Callers :
        (pc[p] = "done" /\ ret[p].op = "get_stats") =>
            LET st == ret[p].stats
                sessions == {s \in Ids : persisted(s)}
                avg == st.average_messages_per_session
            IN  /\ st.total_sessions = Cardinality(sessions)
                /\ st.total_messages = persistedMessages(sessions)
                /\ avg.raised = NoneV
                /\ avg.num * Cardinality(sessions) = st.total_messages * avg.den
                /\ sessions = {} =>
                        /\ st.total_sessions = 0
                        /\ st.total_messages = 0
                        /\ avg = intZero

\* get_stats has returned the totals of two sessions with a message each
C11_Witness ==
    \E p \in Callers :
        /\ pc[p] = "done" /\ ret[p].op = "get_stats"
        /\ ret[p].stats.total_sessions = 2
        /\ ret[p].stats.total_messages = 2
        /\ ret[p].stats.average_messages_per_session.den = 2

\* get_stats has returned on a namespace from which every session was deleted
C11_WitnessEmpty ==
    \E p \in Callers :
        /\ pc[p] = "done" /\ ret[p].op = "get_stats"
        /\ ret[p].stats.total_sessions = 0
        /\ deleted # {}

\* caller p's cleanup_old_sessions call returns in this step
cleanupReturns(p) == pc[p] = "cleanup_scan" /\ pc'[p] = "done"

\* C12 as stated: cleanup_old_sessions(days_old=0) on a namespace of
\* just-created sessions (no session is older than MaxTime ticks) removes all
\* of them, leaving the namespace empty, and returns the number of sessions
\* that existed before the call.
C12_ZeroDaysRemovesAll ==
    [][\A p \in Callers :
        (cleanupReturns(p) /\ loc[p].days = 0) =>
            /\ listdir(files') = {}
            /\ ret'[p].n = Len(loc[p].names)
      ]_vars

\* C12, amended: cleanup_old_sessions(days_old=0) removes every session
\* created before the clock reading the call takes and returns their number;
\* a session whose created_at is that very reading is kept.  So the
\* namespace is left empty, and the count is the number of sessions that
\* existed before the call, exactly when the clock has advanced since the
\* last creation.
C12_ZeroDaysRemovesEarlier ==
    [][\A p \in Callers :
        (cleanupReturns(p) /\ loc[p].days = 0) =>
            LET kept == listdir(files')
            IN  /\ \A s \in kept :
                    /\ persisted(s)'
                    /\ fromisoformat(files'[s].text.created_at) = loc[p].cutoff
                /\ ret'[p].n = Len(loc[p].names) - Cardinality(kept)
                /\ (kept = {}) <=> (ret'[p].n = Len(loc[p].names))
      ]_vars

\* cleanup_old_sessions(0) has returned 2 and the namespace is empty
C12_Witness ==
    \E p \in Callers :
        /\ pc[p] = "done" /\ ret[p].op = "cleanup_old_sessions"
        /\ ret[p].days = 0
        /\ ret[p].n = 2
        /\ listdir(files) = {}

\* caller p is inside the scan of a cleanup_old_sessions call
cleaning(p) == pc[p] \in {"cleanup_scan", "cleanup_delete"}

\* C13: with a single caller, cleanup_old_sessions(d) removes exactly the
\* sessions whose created_at is earlier than now - d, whatever their
\* last_updated: no step of it changes a record that is not that old, when it
\* returns no record that old is left, and the number it returns is the
\* number of sessions it removed.
C13_RemovesExactlyOld ==
    [][\A p \in Callers :
        /\ cleaning(p) =>
            \A s \in Ids :
                (persisted(s)
                    /\ fromisoformat(files[s].text.created_at) >= loc[p].cutoff)
                => files'[s] = files[s]
        /\ cleanupReturns(p) =>
            /\ \A s \in listdir(files') :
                    /\ persisted(s)'
                    /\ fromisoformat(files'[s].text.created_at) >= loc[p].cutoff
            /\ ret'[p].n = Len(loc[p].names) - Cardinality(listdir(files'))
        /\ (pc[p] = "idle" /\ pc'[p] = "cleanup_dir") =>
            loc'[p].cutoff = now - loc'[p].days * TicksPerDay
      ]_vars

\* cleanup_old_sessions has removed one session and is removing a second one,
\* created before the cutoff, that got a message at the time of the cutoff
C13_Witness ==
    \E p \in Callers :
        /\ pc[p] = "cleanup_delete"
        /\ loc[p].removed = 1
        /\ LET rec == get_session(files, Head(loc[p].todo)).data
           IN /\ fromisoformat(rec.created_at) < loc[p].cutoff
              /\ fromisoformat(rec.last_updated) >= loc[p].cutoff
              /\ rec.message_count = 1

\* caller p's add_message call returns from _save_session in this step
addSaveReturns(p) ==
    /\ pc[p] \in {"save_open", "save_write"}
    /\ loc[p].op = "add_message"
    /\ pc'[p] = "done"

\* C14: add_message returns true only for a message that was persisted: when
\* the write of the updated record cannot complete, it returns false.
C14_FailedSaveReturnsFalse ==
    [][\A p \in Callers :
        addSaveReturns(p) =>
            (ret'[p].ok => files'[loc[p].sid] = JsonFile(loc[p].data))
      ]_vars

\* unit s is there and is not a JSON document
corrupt(s) == files[s].kind \in {"unparseable", "undecodable"}

\* caller p makes, and returns from, a call of op on s in this step
callReturns(p, op, s) ==
    /\ pc[p] = "idle" /\ pc'[p] = "done"
    /\ ret'[p].op = op /\ ret'[p].sid = s

\* C15: a corrupt unit is treated as an absent one by every reading
\* operation: get_session returns not-found, get_session_messages returns an
\* empty sequence, the scan of list_sessions and get_stats passes over it, and
\* add_message on it returns failure and leaves the unit as it is.
C15_CorruptIsAbsent ==
    [][\A p \in Callers : \A s \in Ids :
        corrupt(s) =>
            /\ callReturns(p, "get_session", s) =>
                    ~ret'[p].ok /\ ret'[p].raised = NoneV
            /\ callReturns(p, "get_session_messages", s) =>
                    ret'[p].list = <<>> /\ ret'[p].raised = NoneV
            /\ callReturns(p, "add_message", s) =>
                    ~ret'[p].ok /\ ret'[p].raised = NoneV /\ files' = files
            /\ (pc[p] = "list_scan" /\ loc[p].todo # <<>> /\ Head(loc[p].todo) = s
                    /\ (pc'[p] # pc[p] \/ loc'[p] # loc[p])) =>
                    /\ pc'[p] = "list_scan"
                    /\ loc'[p].acc = loc[p].acc
                    /\ loc'[p].todo = Tail(loc[p].todo)
      ]_vars

\* C16: no store operation ends in an exception, in any reachable state: on
\* corrupt units, after failed writes and removes, and when another caller
\* removes units during a scan.
C16_NoExceptionEver ==
    \A p \in Callers :
        /\ ret[p].raised = NoneV
        /\ ret[p].stats.average_messages_per_session.raised = NoneV

\* caller p has returned True from add_message on s
addSucceeded(p, s) ==
    /\ pc[p] = "done" /\ ret[p].op = "add_message"
    /\ ret[p].sid = s /\ ret[p].ok

\* C17: an add_message writes the record it read with its own message
\* appended, whatever was written to the unit since it read: of two calls on
\* one session that both read before either writes, both return success and
\* the record holds only the message of the one that writes last, with
\* message_count one more than what both read, not two.
C17_LaterWriterWins ==
    [][\A p \in Callers :
        (addSaveReturns(p) /\ files'[loc[p].sid].kind = "json"
                           /\ files'[loc[p].sid] # files[loc[p].sid]) =>
            LET old == loc[p].orig
                new == files'[loc[p].sid].text
                n == Len(old.messages)
            IN  /\ ret'[p].ok
                /\ new.message_count = old.message_count + 1
                /\ Len(new.messages) = n + 1
                /\ SubSeq(new.messages, 1, n) = old.messages
      ]_vars

\* both callers have returned True from add_message on the session, which
\* was never deleted, and its record holds one message
C17_Witness ==
    \E s \in Ids :
        /\ \A p \in Callers : addSucceeded(p, s)
        /\ deleted = {}
        /\ persisted(s)
        /\ files[s].text.message_count = 1
        /\ Len(files[s].text.messages) = 1

\* caller q takes this step
acts(q) == pc'[q] # pc[q] \/ loc'[q] # loc[q] \/ ret'[q] # ret[q]

\* C18: callers that make their add_message and delete_session calls on
\* sessions of their own do not interfere, under every interleaving: a step
\* of one caller changes neither the other caller's units nor its call; the
\* record an add_message read is still what the unit holds when it opens it
\* to write; and every add_message that returns True has left the unit with
\* exactly that record and the new message appended, so no append is lost.
C18_DistinctSessionsApart ==
    [][\A p \in Callers :
        /\ \A q \in Callers \ {p} :
            acts(q) =>
                /\ \A s \in env.own[p] : files'[s] = files[s]
                /\ pc'[p] = pc[p] /\ loc'[p] = loc[p] /\ ret'[p] = ret[p]
        /\ (pc[p] = "save_open" /\ loc[p].op = "add_message" /\ acts(p)) =>
                /\ files[loc[p].sid].kind = "json"
                /\ files[loc[p].sid].text = loc[p].orig
        /\ addSaveReturns(p) =>
                LET old == loc[p].orig
                    new == files'[loc[p].sid]
                IN  /\ ret'[p].ok
                    /\ new = JsonFile(loc[p].data)
                    /\ new.text.messages =
                            Append(old.messages,
                                   loc[p].data.messages[Len(old.messages) + 1])
                    /\ new.text.message_count = old.message_count + 1
      ]_vars

\* one caller has appended two messages to its session and the other is in
\* the middle of writing the second message of its own
C18_Witness ==
    \E p, q \in Callers :
        /\ p # q
        /\ \E s \in env.own[p] :
            /\ addSucceeded(p, s)
            /\ persisted(s)
            /\ files[s].text.message_count = MaxMsgs
        /\ pc[q] = "save_write" /\ loc[q].op = "add_message"
        /\ loc[q].sid \in env.own[q]
        /\ env.own[p] \cap env.own[q] = {}
        /\ loc[q].data.message_count = MaxMsgs

\* the user_id stored in the record of unit s of directory F
owner(F, s) == get_session(F, s).data.user_id

\* C19: in the web application a session becomes a client's active session,
\* gets a posted message or is deleted only in a request whose signed-in
\* identity is the user_id stored in the session's record; and a request with
\* no signed-in identity to new_chat, sessions, load_session or
\* delete_session is answered 401 and changes neither the store nor the
\* client's cookie.
C19_OnlyOwnerActs ==
    [][\A c \in Callers :
        acts(c) =>
            /\ \A s \in Ids :
                /\ (cookie'[c].session_id = s /\ cookie[c].session_id # s) =>
                        /\ cookie'[c].user_id # NoneV
                        /\ get_session(files', s).found
                        /\ owner(files', s) = cookie'[c].user_id
                /\ (persisted(s) /\ files'[s] # files[s]) =>
                        /\ cookie[c].user_id # NoneV
                        /\ owner(files, s) = cookie[c].user_id
            /\ (signedOut(c) /\ ret'[c].op \in {"new_chat", "sessions",
                                                 "load_session", "delete_session"}) =>
                        /\ ret'[c].n = 401
                        /\ files' = files
                        /\ issued' = issued
                        /\ cookie' = cookie
      ]_vars

\* a client signed in under one identity has been answered 404 to the delete
\* of a session of another identity, which holds a message and is still
\* there, while the client of that identity is signed in
C19_Witness ==
    \E c, d \in Callers :
        /\ pc[c] = "done" /\ ret[c].op = "delete_session" /\ ret[c].n = 404
        /\ cookie[c].user_id # NoneV
        /\ persisted(ret[c].sid)
        /\ owner(files, ret[c].sid) # cookie[c].user_id
        /\ owner(files, ret[c].sid) = cookie[d].user_id
        /\ files[ret[c].sid].text.message_count = 1

\* a client that is not signed in has been answered 401 to the delete of a
\* session that is there
C19_WitnessSignedOut ==
    \E c \in Callers :
        /\ pc[c] = "done" /\ ret[c].op = "delete_session" /\ ret[c].n = 401
        /\ persisted(ret[c].sid)

\* the fields of a record's JSON document that create_session sets for good
creationFields(text) ==
    <<text.session_id, text.user_id, text.created_at, text.metadata>>

\* C20: the session_id, user_id, created_at and metadata of a session's
\* persisted record stay as create_session wrote them, under every
\* interleaving of the callers' operations: no step changes them in a record
\* that stays persisted, an add_message takes them from the record it reads
\* and keeps them while it builds the new record, and a unit that is written
\* holds them as the writing call has them.
C20_CreationFieldsKept ==
    [][\A s \in Ids :
        /\ (persisted(s) /\ persisted(s)') =>
                creationFields(files'[s].text) = creationFields(files[s].text)
        /\ \A p \in Callers :
            /\ (~addInFlight(p, s) /\ addInFlight(p, s)') =>
                    /\ persisted(s)
                    /\ creationFields(dumps(loc'[p].data))
                            = creationFields(files[s].text)
            /\ (addInFlight(p, s) /\ addInFlight(p, s)') =>
                    creationFields(dumps(loc'[p].data))
                        = creationFields(dumps(loc[p].data))
        /\ (~persisted(s) /\ persisted(s)') =>
                \E p \in Callers :
                    /\ pc[p] = "save_write" /\ loc[p].sid = s
                    /\ creationFields(files'[s].text)
                            = creationFields(dumps(loc[p].data))
                    /\ loc[p].op = "create_session" =>
                            creationFields(files'[s].text)
                                = <<s, dumps(loc[p].data).user_id,
                                    loc[p].data.created_at, orEmpty(loc[p].meta)>>
      ]_vars

\* a record that got its MaxMsgs messages later than it was created, while
\* the other caller is inside an add_message on the same session
C20_Witness ==
    \E s \in Ids, p \in Callers :
        /\ persisted(s)
        /\ files[s].text.message_count = MaxMsgs
        /\ files[s].text.created_at # files[s].text.last_updated
        /\ files[s].text.user_id = jsonString("u1")
        /\ addInFlight(p, s)

\* caller q is inside the _save_session of an add_message on s, a session
\* that exists: it was read by the call and never deleted
savingExisting(q, s) ==
    /\ pc[q] \in {"save_open", "save_write"}
    /\ loc[q].op = "add_message"
    /\ loc[q].sid = s
    /\ s \notin deleted

\* a record all of whose parts are there
complete(rec) ==
    /\ rec.session_id # NoneV
    /\ rec.created_at # <<>>
    /\ rec.last_updated # <<>>
    /\ rec.message_count = Len(rec.messages)

\* C21: a save replaces the persisted unit atomically: while a caller is
\* inside the save of an add_message on an existing session, a get_session,
\* the read of an add_message or the read of a list_sessions scan by another
\* caller gets a complete record (the one the unit holds), never an empty or
\* partial unit and never not-found.
C21_SaveIsAtomic ==
    [][\A p, q \in Callers : \A s \in Ids :
        (p # q /\ savingExisting(q, s)) =>
            /\ callReturns(p, "get_session", s) => ret'[p].ok
            /\ (addCalled(p) /\ addCalledSid(p) = s
                    /\ ~blank(addCalledContent(p))) =>
                    /\ pc'[p] = "add_build"
                    /\ complete(loc'[p].data)
            /\ (pc[p] = "list_scan" /\ loc[p].todo # <<>> /\ Head(loc[p].todo) = s
                    /\ acts(p)) =>
                    /\ pc'[p] = "list_scan"
                    /\ Len(loc'[p].acc) = Len(loc[p].acc) + 1
                    /\ persisted(s) /\ complete(loads(files[s].text))
      ]_vars

\* caller p's create_session call returns in this step
createReturns(p) ==
    /\ pc[p] \in {"save_open", "save_write"}
    /\ loc[p].op = "create_session"
    /\ pc'[p] = "done"

\* C22: the record that create_session persists has created_at equal to
\* last_updated: both are the one instant of the creation.
C22_CreatedAtOneInstant ==
    [][\A p \in Callers :
        (createReturns(p) /\ files'[ret'[p].sid].kind = "json") =>
            LET rec == get_session(files', ret'[p].sid).data
            IN  /\ rec.message_count = 0
                /\ rec.created_at = rec.last_updated
      ]_vars

\* caller p takes a step of a get_session, get_session_messages,
\* list_sessions or get_stats call
reading(p) ==
    /\ acts(p)
    /\ \/ /\ pc[p] = "idle" /\ pc'[p] = "done"
          /\ ret'[p].op \in {"get_session", "get_session_messages"}
       \/ /\ pc[p] = "idle" /\ pc'[p] = "list_scan"
       \/ /\ pc[p] = "list_scan"
          /\ loc[p].op \in {"list_sessions", "get_stats"}

\* C23: get_session, get_session_messages, list_sessions and get_stats are
\* read-only: in every state, with corrupt units in the namespace as well, no
\* step of any of them changes a persisted unit, the set of units in the
\* namespace or the storage directory, whether the call returns a value or
\* ends in an exception.
C23_ReadsChangeNothing ==
    [][\A p \in Callers :
        reading(p) =>
            /\ \A s \in Ids : files'[s] = files[s]
            /\ listdir(files') = listdir(files)
            /\ dir' = dir
            /\ issued' = issued /\ deleted' = deleted
      ]_vars

\* list_sessions has returned the one session it could read from a namespace
\* that also holds a corrupt unit
C23_Witness ==
    \E p \in Callers, s \in Ids :
        /\ pc[p] = "done" /\ ret[p].op = "list_sessions"
        /\ ret[p].raised = NoneV
        /\ Len(ret[p].list) = 1
        /\ corrupt(s)
        /\ persisted(ret[p].list[1].session_id)

\* get_stats has ended in an exception on a unit that does not decode, which
\* is still there
C23_WitnessRaised ==
    \E p \in Callers, s \in Ids :
        /\ pc[p] = "done" /\ ret[p].op = "get_stats"
        /\ ret[p].raised # NoneV
        /\ files[s].kind = "undecodable"

\* timestamp a is not later than timestamp b, as times and as the strings
\* that list_sessions sorts by
notLater(a, b) == fromisoformat(a) <= fromisoformat(b) /\ ~seqLess(b, a)

\* C24: with a single caller and a clock that never goes backwards, every
\* persisted record has created_at <= last_updated, its message timestamps
\* are non-decreasing in list order and none is later than last_updated; and
\* right after a successful add_message on session S, list_sessions(None)
\* has S in it and no session with a last_updated later than S's, so the
\* first of the list is as recent as S.
C24_TimestampsOrdered ==
    /\ \A s \in Ids :
        persisted(s) =>
            LET rec == get_session(files, s).data
                n == Len(rec.messages)
            IN  /\ notLater(rec.created_at, rec.last_updated)
                /\ \A i, j \in 1..n :
                    i < j => notLater(rec.messages[i].timestamp,
                                      rec.messages[j].timestamp)
                /\ \A i \in 1..n :
                    /\ notLater(rec.messages[i].timestamp, rec.last_updated)
                    /\ notLater(rec.created_at, rec.messages[i].timestamp)
    /\ \A p \in Callers, S \in Ids :
        addSucceeded(p, S) =>
            /\ persisted(S)
            /\ \A o \in Ids \ {S} :
                persisted(o) =>
                    notLater(files[o].text.last_updated,
                             files[S].text.last_updated)
            /\ \A names \in Perms(listdir(files)) :
                LET L == sortDesc(scanned(files, NoneV, names))
                IN  /\ \E i \in 1..Len(L) : L[i].session_id = S
                    /\ \A i \in 1..Len(L) :
                        notLater(L[i].last_updated, files[S].text.last_updated)
                    /\ L[1].last_updated = files[S].text.last_updated

\* add_message has returned True on the older of two sessions, which is now
\* the one updated last
C24_Witness ==
    \E p \in Callers, S \in Ids, o \in Ids :
        /\ addSucceeded(p, S)
        /\ o # S /\ persisted(o) /\ persisted(S)
        /\ fromisoformat(files[S].text.created_at)
                < fromisoformat(files[o].text.created_at)
        /\ fromisoformat(files[o].text.last_updated)
                < fromisoformat(files[S].text.last_updated)

\* a record with two messages of different times, updated later than it was
\* created
C24_WitnessMessages ==
    \E s \in Ids :
        /\ persisted(s)
        /\ Len(files[s].text.messages) = 2
        /\ fromisoformat(files[s].text.messages[1].timestamp)
                < fromisoformat(files[s].text.messages[2].timestamp)
        /\ fromisoformat(files[s].text.created_at)
                < fromisoformat(files[s].text.last_updated)

====
